---- MODULE Spec2Model ----
(***************************************************************************)
(* GyanGuru (src/app.py): the generation handlers, the download endpoints  *)
(* and the filename sanitizer; and the chat script (src/streamlit.py).     *)
(*                                                                         *)
(* Strings whose characters matter (filenames, subject fields) are         *)
(* sequences of one-character strings.  A non-ASCII code point is written  *)
(* as the token "U+xxxx".                                                  *)
(***************************************************************************)
EXTENDS Integers, Sequences, FiniteSets, TLC

VARIABLES osName, fname, safeOut,
          debug, files, last,
          messages, lastRun

vars == <<osName, fname, safeOut, debug, files, last, messages, lastRun>>

sanVars  == <<fname, safeOut>>
apiVars  == <<debug, files, last>>
chatVars == <<messages, lastRun>>

(***************************************************************************)
(* Bounds                                                                  *)
(***************************************************************************)
MaxLen == 4
MaxMsgs == 5

(***************************************************************************)
(* Characters                                                              *)
(***************************************************************************)
Alphabet == {"c", "o", "n", ".", "_", "-", "/", "\\", " ", "U+00F1"}

Platforms == {"posix", "nt"}

SeqsUpTo(S, n) == UNION {[1..k -> S] : k \in 0..n}

Filenames == SeqsUpTo(Alphabet, MaxLen)

allowed_chars ==
  {"a","b","c","d","e","f","g","h","i","j","k","l","m",
   "n","o","p","q","r","s","t","u","v","w","x","y","z",
   "A","B","C","D","E","F","G","H","I","J","K","L","M",
   "N","O","P","Q","R","S","T","U","V","W","X","Y","Z",
   "0","1","2","3","4","5","6","7","8","9","-","_","."}

Whitespace == {" ", "\t", "\n", "\r", "\f"}

\* unicodedata.normalize("NFKD", c): n-tilde decomposes into n + combining tilde
Nfkd(c) == IF c = "U+00F1" THEN <<"n", "U+0303">> ELSE <<c>>

\* the characters that survive encode("ascii", "ignore")
AsciiChars == allowed_chars \cup Whitespace \cup {"/", "\\", ":"}

\* str.upper() on one character; only the letters of the device names are
\* spelled out, no other letter can make a name equal to one of them
Upper(c) ==
  CASE c = "c" -> "C" [] c = "o" -> "O" [] c = "n" -> "N"
    [] c = "a" -> "A" [] c = "u" -> "U" [] c = "x" -> "X"
    [] c = "p" -> "P" [] c = "r" -> "R" [] c = "l" -> "L"
    [] c = "m" -> "M" [] c = "t" -> "T"
    [] OTHER -> c

RECURSIVE Concat(_)
Concat(ss) == IF ss = <<>> THEN <<>> ELSE Head(ss) \o Concat(Tail(ss))

\* the characters of s that are in S, in order
RECURSIVE KeepIn(_, _)
KeepIn(s, S) ==
  IF s = <<>> THEN <<>>
  ELSE (IF Head(s) \in S THEN <<Head(s)>> ELSE <<>>) \o KeepIn(Tail(s), S)

\* str.lstrip / str.rstrip / str.strip with the character set S
RECURSIVE LStrip(_, _)
LStrip(s, S) ==
  IF s # <<>> /\ Head(s) \in S THEN LStrip(Tail(s), S) ELSE s

RECURSIVE RStrip(_, _)
RStrip(s, S) ==
  IF s # <<>> /\ s[Len(s)] \in S THEN RStrip(SubSeq(s, 1, Len(s) - 1), S) ELSE s

Strip(s, S) == RStrip(LStrip(s, S), S)

\* the longest prefix of s without a character of S
RECURSIVE WordPrefix(_, _)
WordPrefix(s, S) ==
  IF s = <<>> \/ Head(s) \in S THEN <<>>
  ELSE <<Head(s)>> \o WordPrefix(Tail(s), S)

\* s.split(): the maximal runs of non-whitespace characters
RECURSIVE SplitWs(_)
SplitWs(s) ==
  LET t == LStrip(s, Whitespace)
      w == WordPrefix(t, Whitespace)
  IN  IF t = <<>> THEN <<>>
      ELSE <<w>> \o SplitWs(SubSeq(t, Len(w) + 1, Len(t)))

\* sep.join(parts)
RECURSIVE Join(_, _)
Join(sep, parts) ==
  IF parts = <<>> THEN <<>>
  ELSE IF Len(parts) = 1 THEN Head(parts)
  ELSE Head(parts) \o sep \o Join(sep, Tail(parts))

\* os.sep and os.path.altsep of the platform (altsep is None on posix)
PathSeps(os) == IF os = "nt" THEN {"\\", "/"} ELSE {"/"}

_windows_device_files ==
  {<<"C","O","N">>, <<"P","R","N">>, <<"A","U","X">>, <<"N","U","L">>}
  \cup {<<"C","O","M",d>> : d \in {"1","2","3","4","5","6","7","8","9"}}
  \cup {<<"L","P","T",d>> : d \in {"1","2","3","4","5","6","7","8","9"}}

\* werkzeug.utils.secure_filename on platform os
secure_filename(filename, os) ==
  LET normalized == Concat([i \in 1..Len(filename) |-> Nfkd(filename[i])])
      ascii      == KeepIn(normalized, AsciiChars)
      nosep      == [i \in 1..Len(ascii) |->
                       IF ascii[i] \in PathSeps(os) THEN " " ELSE ascii[i]]
      joined     == Join(<<"_">>, SplitWs(nosep))
      stripped   == Strip(KeepIn(joined, allowed_chars), {".", "_"})
      stem       == WordPrefix(stripped, {"."})
  IN  IF os = "nt" /\ stripped # <<>>
         /\ [i \in 1..Len(stem) |-> Upper(stem[i])] \in _windows_device_files
      THEN <<"_">> \o stripped
      ELSE stripped

\* _safe_filename returning the raw filename after the check
_safe_filename_raw(filename, os) ==
  LET safe == secure_filename(filename, os)
  IN  IF ~ (\A i \in 1..Len(safe) : safe[i] \in allowed_chars)
      THEN <<>>
      ELSE filename

\* _safe_filename running the allow-list over the raw filename
_safe_filename_precheck(filename, os) ==
  LET safe == secure_filename(filename, os)
  IN  IF ~ (\A i \in 1..Len(filename) : filename[i] \in allowed_chars)
      THEN <<>>
      ELSE safe

\* _safe_filename with "-" missing from the allow-list
_safe_filename_nodash(filename, os) ==
  LET safe == secure_filename(filename, os)
  IN  IF ~ (\A i \in 1..Len(safe) : safe[i] \in allowed_chars \ {"-"})
      THEN <<>>
      ELSE safe

_safe_filename(filename, os) ==
  LET safe == secure_filename(filename, os)
  IN  IF ~ (\A i \in 1..Len(safe) : safe[i] \in allowed_chars)
      THEN <<>>
      ELSE safe

(***************************************************************************)
(* The sanitizer alone: a filename is drawn, then sanitized.               *)
(***************************************************************************)
NoOut == <<"none">>

InitSanitize ==
  /\ osName \in Platforms
  /\ fname \in Filenames
  /\ safeOut = NoOut
  /\ debug = FALSE
  /\ files = <<>>
  /\ last = <<>>
  /\ messages = <<>>
  /\ lastRun = "none"

Sanitize ==
  /\ safeOut = NoOut
  /\ safeOut' = <<"ok", _safe_filename(fname, osName)>>
  /\ UNCHANGED <<osName, fname, apiVars, chatVars>>

NextSanitize == Sanitize

SpecSanitize == InitSanitize /\ [][NextSanitize]_vars

(***************************************************************************)
(* The Flask application: generation handlers and download endpoints       *)
(***************************************************************************)
AUDIO_DIR == "generated/audio"
IMAGE_DIR == "generated/images"
CODE_DIR  == "generated/code"

Dirs == {AUDIO_DIR, IMAGE_DIR, CODE_DIR}

GenEndpoints == {"text", "code", "audio", "image"}
DownloadEndpoints == {"download_audio", "download_code", "download_image"}

\* raw values of the subject field sent by clients
SubjectValues ==
  {<<>>, <<" ">>, <<" ", "\t">>, <<"c">>, <<" ", "c", " ">>}

\* request bodies: json is what request.get_json(silent=True) yields ("none":
\* no or unparseable JSON, or a falsy JSON value; "array": a non-empty JSON
\* array); field is the kind of the subject field in a JSON object; opt says
\* whether the enumerated option (depth, complexity, length, backend) is sent
Bodies ==
  {[json |-> "none", field |-> "absent", val |-> <<>>, opt |-> "absent"],
   [json |-> "array", field |-> "absent", val |-> <<>>, opt |-> "absent"]}
  \cup [json : {"object"}, field : {"absent", "null"}, val : {<<>>},
        opt : {"absent", "given"}]
  \cup [json : {"object"}, field : {"string"}, val : SubjectValues,
        opt : {"absent", "given"}]

\* filenames requested from the download routes: a route segment is not
\* empty and has no "/"
DownloadNames ==
  {<<"c", ".", "p", "y">>, <<"c", ".", "m", "p", "3">>, <<"c", ".", "p", "n", "g">>,
   <<".", ".">>, <<".", "c", ".", "p", "y">>, <<".", ".", "\\", "c", ".", "p", "y">>,
   <<"c", "o", "n">>, <<"c", " ", "o">>, <<"U+00F1">>, <<"_">>, <<"U+0303">>}

AdapterStatus == {"success", "error"}

NoKeys == {}

\* the result envelope an adapter returns
AdapterResult(fn, status) ==
  [status |-> status,
   message |-> IF status = "error" THEN "adapter failure" ELSE "",
   src |-> fn, keys |-> NoKeys, filename |-> <<>>]

\* jsonify({"status": "error", "message": message})
ErrorEnvelope(message, src) ==
  [status |-> "error", message |-> message, src |-> src, keys |-> NoKeys,
   filename |-> <<>>]

\* a response body that is not a JSON envelope (an HTML page)
HtmlPage(src) ==
  [status |-> "none", message |-> "", src |-> src, keys |-> NoKeys,
   filename |-> <<>>]

Call(fn, dir, arg, opt) == [fn |-> fn, dir |-> dir, arg |-> arg, opt |-> opt]

NoDir == "-"

\* the outcome of one request: HTTP status, body, the calls made in order and
\* the artifacts written
Outcome(http, resp, calls, written) ==
  [http |-> http, resp |-> resp, calls |-> calls, written |-> written]

\* an exception escaping a view: server_error unless debug propagates it to
\* the debugger page
Unhandled(dbg) ==
  Outcome(500,
          IF dbg THEN HtmlPage("debugger")
          ELSE ErrorEnvelope("Internal server error", "server_error"),
          IF dbg THEN <<>> ELSE <<Call("jsonify", NoDir, <<>>, "-")>>, {})

\* data = request.get_json(silent=True) or {}; data.get(key, "") raises for
\* a JSON array, .strip() raises for a value that is not a string
SubjectRaises(body) == body.json = "array" \/ body.field = "null"

\* data.get(key, "") without the .strip()
SubjectField_nostrip(body) ==
  IF body.json = "object" /\ body.field = "string" THEN body.val ELSE <<>>

\* data.get(key, "").strip()
SubjectField(body) ==
  IF body.json = "object" /\ body.field = "string"
  THEN Strip(body.val, Whitespace)
  ELSE <<>>

\* data.get(option, default)
OptionField(body, default) ==
  IF body.json = "object" /\ body.opt = "given" THEN "custom" ELSE default

\* artifact names derived from the subject
ArtifactName(subject, ext) == Join(<<"_">>, SplitWs(subject)) \o ext

PyExt  == <<".", "p", "y">>
Mp3Ext == <<".", "m", "p", "3">>
PngExt == <<".", "p", "n", "g">>

\* return jsonify(...) as the last step of a view or error handler
Json(calls) == Append(calls, Call("jsonify", NoDir, <<>>, "-"))

\* save_code_file(code, algorithm, output_dir): writes the file, reports its name
save_code_file(algorithm, output_dir) ==
  [filename |-> ArtifactName(algorithm, PyExt),
   written  |-> {<<output_dir, ArtifactName(algorithm, PyExt)>>}]

\* generate_audio(script, topic, output_dir): writes the MP3 when it succeeds
generate_audio(topic, output_dir, status) ==
  [result  |-> AdapterResult("generate_audio", status),
   written |-> IF status = "success"
               THEN {<<output_dir, ArtifactName(topic, Mp3Ext)>>} ELSE {}]

\* generate_educational_images(prompts, concept, backend, output_dir)
generate_educational_images(concept, output_dir, status) ==
  [result  |-> AdapterResult("generate_educational_images", status),
   written |-> IF status = "success"
               THEN {<<output_dir, ArtifactName(concept, PngExt)>>} ELSE {}]

\* the first step of a two-step handler never counts as failed
StepFailed_never(result) == FALSE

\* if result.get("status") != "success": return jsonify(result), 500
StepFailed(result) == result.status # "success"

api_generate_text(body, r1, dbg) ==
  IF SubjectRaises(body) THEN Unhandled(dbg)
  ELSE LET topic == SubjectField(body)
           depth == OptionField(body, "Comprehensive")
       IN  IF topic = <<>>
           THEN Outcome(400, ErrorEnvelope("Topic is required", "text"),
                        Json(<<>>), {})
           ELSE Outcome(200, AdapterResult("generate_text_explanation", r1),
                        Json(<<Call("generate_text_explanation", NoDir, topic, depth)>>),
                        {})

CodeKeys ==
  {"filename", "syntax_valid", "line_count",
   "colab_instructions", "local_instructions"}

\* api_generate_code persisting the code whatever the adapter reported
api_generate_code_always_save(body, r1, dbg) ==
  IF SubjectRaises(body) THEN Unhandled(dbg)
  ELSE LET algorithm  == SubjectField(body)
           complexity == OptionField(body, "Detailed")
           result     == AdapterResult("generate_code_example", r1)
           save_result == save_code_file(algorithm, CODE_DIR)
           gen        == Call("generate_code_example", NoDir, algorithm, complexity)
       IN  IF algorithm = <<>>
           THEN Outcome(400, ErrorEnvelope("Algorithm name is required", "code"),
                        Json(<<>>), {})
           ELSE Outcome(200,
                        [result EXCEPT !.keys = CodeKeys,
                                       !.filename = save_result.filename],
                        Json(<<gen,
                          Call("save_code_file", CODE_DIR, algorithm, "-"),
                          Call("get_colab_instructions", NoDir,
                               save_result.filename, "-"),
                          Call("get_local_instructions", NoDir,
                               save_result.filename, "-")>>),
                        save_result.written)

api_generate_code(body, r1, dbg) ==
  IF SubjectRaises(body) THEN Unhandled(dbg)
  ELSE LET algorithm  == SubjectField(body)
           complexity == OptionField(body, "Detailed")
           result     == AdapterResult("generate_code_example", r1)
           save_result == save_code_file(algorithm, CODE_DIR)
           gen        == Call("generate_code_example", NoDir, algorithm, complexity)
       IN  IF algorithm = <<>>
           THEN Outcome(400, ErrorEnvelope("Algorithm name is required", "code"),
                        Json(<<>>), {})
           ELSE IF result.status = "success"
           THEN Outcome(200,
                        [result EXCEPT !.keys = CodeKeys,
                                       !.filename = save_result.filename],
                        Json(<<gen,
                          Call("save_code_file", CODE_DIR, algorithm, "-"),
                          Call("get_colab_instructions", NoDir,
                               save_result.filename, "-"),
                          Call("get_local_instructions", NoDir,
                               save_result.filename, "-")>>),
                        save_result.written)
           ELSE Outcome(200, result, Json(<<gen>>), {})

\* api_generate_audio sweeping the audio directory before the synthesis
api_generate_audio_sweep_first(body, r1, r2, dbg) ==
  IF SubjectRaises(body) THEN Unhandled(dbg)
  ELSE LET topic  == SubjectField(body)
           length == OptionField(body, "Medium")
           script_result == AdapterResult("generate_audio_script", r1)
           audio  == generate_audio(topic, AUDIO_DIR, r2)
           gen == Call("generate_audio_script", NoDir, topic, length)
       IN  IF topic = <<>>
           THEN Outcome(400, ErrorEnvelope("Topic is required", "audio"),
                        Json(<<>>), {})
           ELSE IF StepFailed(script_result)
           THEN Outcome(500, script_result, Json(<<gen>>), {})
           ELSE Outcome(200,
                        [audio.result EXCEPT !.keys = {"script", "topic"}],
                        Json(<<gen,
                          Call("cleanup_old_audio", AUDIO_DIR, <<>>, "-"),
                          Call("generate_audio", AUDIO_DIR, topic, "-")>>),
                        audio.written)

api_generate_audio(body, r1, r2, dbg) ==
  IF SubjectRaises(body) THEN Unhandled(dbg)
  ELSE LET topic  == SubjectField(body)
           length == OptionField(body, "Medium")
           script_result == AdapterResult("generate_audio_script", r1)
           audio  == generate_audio(topic, AUDIO_DIR, r2)
           gen == Call("generate_audio_script", NoDir, topic, length)
       IN  IF topic = <<>>
           THEN Outcome(400, ErrorEnvelope("Topic is required", "audio"),
                        Json(<<>>), {})
           ELSE IF StepFailed(script_result)
           THEN Outcome(500, script_result, Json(<<gen>>), {})
           ELSE Outcome(200,
                        [audio.result EXCEPT !.keys = {"script", "topic"}],
                        Json(<<gen,
                          Call("generate_audio", AUDIO_DIR, topic, "-"),
                          Call("cleanup_old_audio", AUDIO_DIR, <<>>, "-")>>),
                        audio.written)

api_generate_image(body, r1, r2, dbg) ==
  IF SubjectRaises(body) THEN Unhandled(dbg)
  ELSE LET concept == SubjectField(body)
           backend == OptionField(body, "gemini")
           prompt_result == AdapterResult("generate_image_prompts", r1)
           images == generate_educational_images(concept, IMAGE_DIR, r2)
           gen == Call("generate_image_prompts", NoDir, concept, "-")
       IN  IF concept = <<>>
           THEN Outcome(400, ErrorEnvelope("Concept is required", "image"),
                        Json(<<>>), {})
           ELSE IF StepFailed(prompt_result)
           THEN Outcome(500, prompt_result, Json(<<gen>>), {})
           ELSE Outcome(200,
                        [images.result EXCEPT !.keys = {"prompts", "concept"}],
                        Json(<<gen,
                          Call("generate_educational_images", IMAGE_DIR,
                               concept, backend)>>),
                        images.written)

\* send_from_directory(directory, name, as_attachment=True): the file, or
\* NotFound answered by the 404 handler
send_from_directory(directory, name, fs) ==
  Outcome(IF name \in fs[directory] THEN 200 ELSE 404,
          IF name \in fs[directory]
          THEN HtmlPage("attachment")
          ELSE ErrorEnvelope("Resource not found", "not_found"),
          IF name \in fs[directory]
          THEN <<Call("send_from_directory", directory, name, "-")>>
          ELSE Json(<<Call("send_from_directory", directory, name, "-")>>),
          {})

\* a download view serving the raw name without the abort(400)
download_no_abort(directory, filename, os, fs) ==
  send_from_directory(directory, filename, fs)

\* the three download views, which differ only in their directory
download(directory, filename, os, fs) ==
  LET safe == _safe_filename(filename, os)
  IN  IF safe = <<>>
      THEN Outcome(400, HtmlPage("abort"), <<>>, {})
      ELSE send_from_directory(directory, safe, fs)

download_audio(filename, os, fs) == download(AUDIO_DIR, filename, os, fs)
download_code(filename, os, fs)  == download(CODE_DIR, filename, os, fs)
download_image(filename, os, fs) == download(IMAGE_DIR, filename, os, fs)

NoBody == [json |-> "none", field |-> "absent", val |-> <<>>, opt |-> "absent"]

NoRequest ==
  [endpoint |-> "none", body |-> NoBody, filename |-> <<>>,
   r1 |-> "-", r2 |-> "-", out |-> Outcome(0, HtmlPage("none"), <<>>, {})]

\* the artifact store after the writes of a request and a cleanup sweep
\* that removed the files in swept
Store(fs, written, swept) ==
  [d \in Dirs |->
     (fs[d] \cup {w[2] : w \in {x \in written : x[1] = d}})
       \ (IF d = AUDIO_DIR THEN swept ELSE {})]

InitApi ==
  /\ osName \in Platforms
  /\ debug \in BOOLEAN
  /\ files = [d \in Dirs |-> {}]
  /\ last = NoRequest
  /\ fname = <<>>
  /\ safeOut = NoOut
  /\ messages = <<>>
  /\ lastRun = "none"

Handled(endpoint, body, filename, r1, r2, out, swept) ==
  /\ last' = [endpoint |-> endpoint, body |-> body, filename |-> filename,
              r1 |-> r1, r2 |-> r2, out |-> out]
  /\ files' = Store(files, out.written, swept)
  /\ UNCHANGED <<osName, debug, sanVars, chatVars>>

PostGenerateText ==
  \E body \in Bodies, r1 \in AdapterStatus :
     Handled("text", body, <<>>, r1, "-",
             api_generate_text(body, r1, debug), {})

PostGenerateCode ==
  \E body \in Bodies, r1 \in AdapterStatus :
     Handled("code", body, <<>>, r1, "-",
             api_generate_code(body, r1, debug), {})

\* cleanup_old_audio removes files older than its threshold: some of the
\* files that were there before this request and were not rewritten by it
PostGenerateAudio ==
  \E body \in Bodies, r1 \in AdapterStatus, r2 \in AdapterStatus :
     LET out == api_generate_audio(body, r1, r2, debug)
         ran == \E i \in 1..Len(out.calls) : out.calls[i].fn = "cleanup_old_audio"
         old == files[AUDIO_DIR] \ {w[2] : w \in out.written}
     IN  \E swept \in (IF ran THEN SUBSET old ELSE {{}}) :
            Handled("audio", body, <<>>, r1, r2, out, swept)

PostGenerateImage ==
  \E body \in Bodies, r1 \in AdapterStatus, r2 \in AdapterStatus :
     Handled("image", body, <<>>, r1, r2,
             api_generate_image(body, r1, r2, debug), {})

GetDownloadAudio ==
  \E filename \in DownloadNames :
     Handled("download_audio", NoBody, filename, "-", "-",
             download_audio(filename, osName, files), {})

GetDownloadCode ==
  \E filename \in DownloadNames :
     Handled("download_code", NoBody, filename, "-", "-",
             download_code(filename, osName, files), {})

GetDownloadImage ==
  \E filename \in DownloadNames :
     Handled("download_image", NoBody, filename, "-", "-",
             download_image(filename, osName, files), {})

NextApi ==
  \/ PostGenerateText
  \/ PostGenerateCode
  \/ PostGenerateAudio
  \/ PostGenerateImage
  \/ GetDownloadAudio
  \/ GetDownloadCode
  \/ GetDownloadImage

Spec == InitApi /\ [][NextApi]_vars

(***************************************************************************)
(* Properties of the handlers, stated on the last request handled          *)
(***************************************************************************)
AdapterFns ==
  {"generate_text_explanation", "generate_code_example",
   "generate_audio_script", "generate_audio",
   "generate_image_prompts", "generate_educational_images"}

GuardedFns == AdapterFns \cup {"save_code_file", "cleanup_old_audio"}

CallNames == [i \in 1..Len(last.out.calls) |-> last.out.calls[i].fn]

Called(fn) == \E i \in 1..Len(CallNames) : CallNames[i] = fn

CountCalls(fn) == Cardinality({i \in 1..Len(CallNames) : CallNames[i] = fn})

\* the subject field is absent or holds only whitespace
BlankSubject(body) ==
  /\ body.json \in {"none", "object"}
  /\ \/ body.field = "absent"
     \/ /\ body.field = "string"
        /\ \A i \in 1..Len(body.val) : body.val[i] \in Whitespace

FirstStep(endpoint) ==
  CASE endpoint = "text"  -> "generate_text_explanation"
    [] endpoint = "code"  -> "generate_code_example"
    [] endpoint = "audio" -> "generate_audio_script"
    [] endpoint = "image" -> "generate_image_prompts"
    [] OTHER -> "-"

SecondStep(endpoint) ==
  CASE endpoint = "audio" -> "generate_audio"
    [] endpoint = "image" -> "generate_educational_images"
    [] OTHER -> "-"

C3_FailFast ==
  (/\ last.endpoint \in {"audio", "image"}
   /\ Called(FirstStep(last.endpoint))
   /\ last.r1 # "success") =>
     /\ ~ Called(SecondStep(last.endpoint))
     /\ last.out.http = 500
     /\ last.out.resp = AdapterResult(FirstStep(last.endpoint), last.r1)

\* the prompt step of an image request failed
C3_Witness ==
  /\ last.endpoint = "image"
  /\ Called("generate_image_prompts")
  /\ last.r1 = "error"
  /\ last.out.http = 500

\* some adapter called in the last request reported an error
ReportedError ==
  \/ Called(FirstStep(last.endpoint)) /\ last.r1 = "error"
  \/ Called(SecondStep(last.endpoint)) /\ last.r2 = "error"

\* C5: in a generation handler an adapter error at any step is answered
\* with that step's error envelope and status 500, and every error envelope
\* comes with status 400 or 500.
C5_AdapterErrorIs500 ==
  (last.endpoint \in GenEndpoints) =>
     /\ ReportedError =>
          /\ last.out.http = 500
          /\ last.out.resp.status = "error"
          /\ last.out.resp.src \in AdapterFns
     /\ last.out.resp.status = "error" => last.out.http \in {400, 500}

DownloadDir(endpoint) ==
  CASE endpoint = "download_audio" -> AUDIO_DIR
    [] endpoint = "download_code"  -> CODE_DIR
    [] endpoint = "download_image" -> IMAGE_DIR
    [] OTHER -> NoDir

\* C6: a download whose filename fails sanitization is answered 400 without
\* a call of send_from_directory; one whose filename passes is served by one
\* call of send_from_directory on the endpoint's own directory.
C6_DownloadGated ==
  (last.endpoint \in DownloadEndpoints) =>
     LET safe == _safe_filename(last.filename, osName)
     IN  /\ safe = <<>> =>
              /\ last.out.http = 400
              /\ ~ Called("send_from_directory")
         /\ safe # <<>> =>
              /\ CountCalls("send_from_directory") = 1
              /\ last.out.calls[1] =
                   Call("send_from_directory", DownloadDir(last.endpoint),
                        safe, "-")

\* ".." was refused by the code download endpoint
C6_Witness ==
  /\ last.endpoint = "download_code"
  /\ last.filename = <<".", ".">>
  /\ last.out.http = 400

\* the subject passed validation
SubjectAccepted == Called(FirstStep(last.endpoint))

\* C8: an audio request whose script step succeeds calls, in this order,
\* generate_audio_script, generate_audio, cleanup_old_audio and then
\* responds; cleanup is not called when the request is rejected or the
\* script step fails.
C8_AudioStepOrder ==
  (last.endpoint = "audio") =>
     /\ (SubjectAccepted /\ last.r1 = "success") =>
           CallNames = <<"generate_audio_script", "generate_audio",
                         "cleanup_old_audio", "jsonify">>
     /\ (~ SubjectAccepted \/ last.r1 # "success") =>
           ~ Called("cleanup_old_audio")

\* an audio request went through all its steps
C8_Witness ==
  /\ last.endpoint = "audio"
  /\ last.r1 = "success"
  /\ last.r2 = "success"
  /\ Called("cleanup_old_audio")
  /\ last.out.http = 200

\* C9: when generate_code_example succeeds the response has the keys
\* filename, syntax_valid and line_count, save_code_file was called once on
\* CODE_DIR and the named file is in the code directory; when it fails
\* save_code_file is not called and the adapter's result is the response.
C9_CodePersisted ==
  (last.endpoint = "code" /\ SubjectAccepted) =>
     /\ last.r1 = "success" =>
          /\ {"filename", "syntax_valid", "line_count"} \subseteq last.out.resp.keys
          /\ CountCalls("save_code_file") = 1
          /\ \A i \in 1..Len(last.out.calls) :
                last.out.calls[i].fn = "save_code_file" =>
                   last.out.calls[i].dir = CODE_DIR
          /\ last.out.resp.filename \in files[CODE_DIR]
     /\ last.r1 # "success" =>
          /\ ~ Called("save_code_file")
          /\ last.out.resp = AdapterResult("generate_code_example", last.r1)
          /\ last.out.written = {}

\* a code request succeeded and its file is in the code directory
C9_Witness ==
  /\ last.endpoint = "code"
  /\ last.r1 = "success"
  /\ Called("save_code_file")
  /\ last.out.resp.filename = <<"c", ".", "p", "y">>
  /\ <<"c", ".", "p", "y">> \in files[CODE_DIR]

(***************************************************************************)
(* The chat script: one action is one run of the script                    *)
(***************************************************************************)
\* non-blank prompts typed into st.chat_input
Prompts == {<<"h", "i">>, <<"y", "o">>}

\* whitespace-only prompts
BlankPrompts == {<<" ">>}

\* what client.chat.completions.create yields: a reply whose content is a
\* string (possibly empty) or None, or an exception
ApiOutcomes ==
  {[kind |-> "content", text |-> <<>>],
   [kind |-> "content", text |-> <<"o", "k">>],
   [kind |-> "none", text |-> <<>>],
   [kind |-> "raise", text |-> <<>>]}

\* f"<cross mark> Error: {str(e)}"
ErrorText == <<"U+274C", " ", "E", "r", "r", "o", "r", ":", " ", "e">>

ChunkStep == 30

\* len(range(0, n, ChunkStep))
NumChunks(n) == (n + ChunkStep - 1) \div ChunkStep

Message(role, content) == [role |-> role, content |-> content]

\* the run of the script that handles a submitted prompt: the history it
\* leaves in st.session_state and how the run ended
RunPrompt(history, prompt, api) ==
  IF Strip(prompt, Whitespace) = <<>>
  THEN [messages |-> history, ended |-> "rerun"]
  ELSE LET withUser == Append(history, Message("user", prompt))
           full_response == IF api.kind = "raise" THEN ErrorText ELSE api.text
       IN  IF api.kind = "none"
           THEN [messages |-> withUser, ended |-> "TypeError"]
           ELSE IF NumChunks(Len(full_response)) > 0
           THEN [messages |-> withUser, ended |-> "NameError"]
           ELSE [messages |-> Append(withUser, Message("assistant", full_response)),
                 ended |-> "ok"]

InitChat ==
  /\ messages = <<>>
  /\ lastRun = "none"
  /\ osName = "posix"
  /\ fname = <<>>
  /\ safeOut = NoOut
  /\ debug = FALSE
  /\ files = <<>>
  /\ last = <<>>

SubmitPrompt ==
  \E prompt \in Prompts, api \in ApiOutcomes :
     /\ Len(messages) + 2 <= MaxMsgs
     /\ messages' = RunPrompt(messages, prompt, api).messages
     /\ lastRun' = RunPrompt(messages, prompt, api).ended
     /\ UNCHANGED <<osName, sanVars, apiVars>>

SubmitBlank ==
  \E prompt \in BlankPrompts :
     /\ messages' = RunPrompt(messages, prompt, [kind |-> "raise", text |-> <<>>]).messages
     /\ lastRun' = RunPrompt(messages, prompt, [kind |-> "raise", text |-> <<>>]).ended
     /\ UNCHANGED <<osName, sanVars, apiVars>>

\* the Clear Chat button: the history is emptied and the script reruns
ClearChat ==
  /\ messages' = <<>>
  /\ lastRun' = "cleared"
  /\ UNCHANGED <<osName, sanVars, apiVars>>

NextChat == SubmitPrompt \/ SubmitBlank \/ ClearChat

SpecChat == InitChat /\ [][NextChat]_vars

\* C10: after every run of the chat script the history alternates user,
\* assistant starting with a user message, every processed prompt has got
\* its assistant message, and Clear Chat leaves the history empty.
C10_HistoryAlternates ==
  /\ \A i \in 1..Len(messages) :
        messages[i].role = IF i % 2 = 1 THEN "user" ELSE "assistant"
  /\ Len(messages) % 2 = 0
  /\ lastRun = "cleared" => messages = <<>>

(***************************************************************************)
(* Path resolution, to state what "stays inside the base directory" means  *)
(***************************************************************************)
Separators == {"/", "\\"}

HasSeparator(s) == \E i \in 1..Len(s) : s[i] \in Separators

\* os.path.isabs
IsAbsolute(p, os) ==
  /\ p # <<>>
  /\ \/ p[1] \in PathSeps(os)
     \/ os = "nt" /\ Len(p) >= 2 /\ p[2] = ":"

\* the components of p between separators of the platform
RECURSIVE Components(_, _)
Components(p, os) ==
  LET w == WordPrefix(p, PathSeps(os))
  IN  IF Len(w) = Len(p) THEN <<w>>
      ELSE <<w>> \o Components(SubSeq(p, Len(w) + 2, Len(p)), os)

\* depth below the base directory after walking the components, -1 once the
\* walk has left the base directory
RECURSIVE Walk(_, _)
Walk(cs, depth) ==
  IF cs = <<>> THEN depth
  ELSE IF Head(cs) \in {<<>>, <<".">>} THEN Walk(Tail(cs), depth)
  ELSE IF Head(cs) = <<".", ".">>
       THEN (IF depth = 0 THEN -1 ELSE Walk(Tail(cs), depth - 1))
  ELSE Walk(Tail(cs), depth + 1)

\* os.path.join(base, name) names a path strictly below base
ResolvesInside(name, os) ==
  /\ ~ IsAbsolute(name, os)
  /\ Walk(Components(name, os), 0) >= 1

ContainsDotDotSlash(s) ==
  \E i \in 1..(Len(s) - 2) : s[i] = "." /\ s[i+1] = "." /\ s[i+2] = "/"

\* the filename contains "../", is absolute on some platform, or has a separator
UnsafeInput(s) ==
  \/ ContainsDotDotSlash(s)
  \/ \E os \in Platforms : IsAbsolute(s, os)
  \/ HasSeparator(s)

Sanitized == safeOut # NoOut

\* an ASCII letter, digit or "-" is left after NFKD normalisation
HasNameChar(s) ==
  \E i \in 1..Len(s) : \E j \in 1..Len(Nfkd(s[i])) :
     Nfkd(s[i])[j] \in allowed_chars \ {".", "_"}

\* C1: a non-empty result of _safe_filename has no path separator, is not
\* "." or "..", is not absolute, and joined with a base directory it names a
\* path inside that directory.
C1_SafeResultStaysInside ==
  (Sanitized /\ safeOut[2] # <<>>) =>
     /\ ~ HasSeparator(safeOut[2])
     /\ safeOut[2] \notin {<<".">>, <<".", ".">>}
     /\ \A os \in Platforms : ~ IsAbsolute(safeOut[2], os)
     /\ \A os \in Platforms : ResolvesInside(safeOut[2], os)

\* "../c" has been sanitized to a non-empty name
C1_Witness ==
  /\ Sanitized
  /\ fname = <<".", ".", "/", "c">>
  /\ safeOut[2] # <<>>

\* C4 as stated: an unsafe filename is rejected with the empty string.
C4_UnsafeRejected ==
  (Sanitized /\ UnsafeInput(fname)) => safeOut[2] = <<>>

\* C4 amended: for an unsafe filename the result has no separator and no
\* leading dot, and it is empty exactly when the filename has no ASCII
\* letter, digit or "-" after normalisation.
C4_UnsafeNeutralised ==
  (Sanitized /\ UnsafeInput(fname)) =>
     /\ ~ HasSeparator(safeOut[2])
     /\ (safeOut[2] # <<>> => safeOut[2][1] # ".")
     /\ (safeOut[2] = <<>> <=> ~ HasNameChar(fname))

\* an absolute filename came out non-empty and another unsafe one came out empty
C4_Witness ==
  /\ Sanitized
  /\ \/ fname = <<"/", "c", "/", "o">> /\ safeOut[2] = <<"c", "_", "o">>
     \/ fname = <<".", ".", "/">> /\ safeOut[2] = <<>>

\* C7 as stated: a filename of allow-listed characters comes back unchanged.
C7_AllowedUnchanged ==
  (Sanitized /\ \A i \in 1..Len(fname) : fname[i] \in allowed_chars) =>
     safeOut[2] = fname

\* the part of the name before its first "." is a reserved device name
IsDeviceName(s) ==
  [i \in 1..Len(WordPrefix(s, {"."})) |-> Upper(WordPrefix(s, {"."})[i])]
     \in _windows_device_files

\* C7 amended: a filename of allow-listed characters that neither starts nor
\* ends with "." or "_" (and, on Windows, is not a reserved device name)
\* comes back unchanged.
C7_AllowedTrimmedUnchanged ==
  (/\ Sanitized
   /\ \A i \in 1..Len(fname) : fname[i] \in allowed_chars
   /\ fname = Strip(fname, {".", "_"})
   /\ ~ (osName = "nt" /\ IsDeviceName(fname))) =>
     safeOut[2] = fname

\* "c-.o" came back unchanged
C7_Witness ==
  /\ Sanitized
  /\ fname = <<"c", "-", ".", "o">>
  /\ safeOut[2] = fname

====
